---- MODULE Spec2Model ----
(***************************************************************************)
(* A model of the analysis core of cfg-maker.                              *)
(*                                                                         *)
(*   src/cfggenerator.py  annotate_execution_order        (Spec)           *)
(*   src/cfggenerator.py  calculate_cyclomatic_complexity (SpecComplexity) *)
(*                                                                         *)
(* The annotator walks a control-flow graph breadth first and prefixes     *)
(* every label it reaches with a running order number.  A graph is a       *)
(* record of an entry reference and, per block, a label and a successors   *)
(* attribute.  One action models the entry of a call (lines 21-33), one    *)
(* models one iteration of the while loop (lines 35-67), one the exit.     *)
(*                                                                         *)
(* The complexity analyzer reads a source file, has radon list its blocks  *)
(* and ranks each block against radon.complexity.SCORE.  Its inputs are    *)
(* what the file holds, the blocks radon reports and the value of SCORE;   *)
(* one action models the whole call.                                       *)
(***************************************************************************)
EXTENDS Integers, Sequences, FiniteSets, TLC

\* ------------------------------------------------------------------ bounds
\* Blocks of a graph.
NumNodes == 4
\* Entries of one successors collection.
MaxSucc == 2
\* Size of a graph: its successor entries plus its defects.
MaxSize == 4
\* Inconsistencies of a graph: a successors attribute that is no collection,
\* a label that is no text, a null successor entry.
MaxDefects == 1
\* Blocks radon reports for one source.
MaxBlocks == 2

\* ------------------------------------------------------- values of the model
\* Python's None, as a block reference (cfg.entry, an item of successors).
None == 0
\* cfg has no attribute 'entry' at all (hasattr(cfg, 'entry') is False).
Missing == -1

Nodes == 1..NumNodes

\* The types isinstance(successors, (list, tuple, set)) accepts (line 61).
CollectionKinds == {"list", "tuple", "set"}

SeqsUpTo(S, n) == UNION {[1..k -> S] : k \in 0..n}

NoDup(s) == \A i, j \in 1..Len(s) : i # j => s[i] # s[j]

Range(s) == {s[i] : i \in 1..Len(s)}

\* A label that is a str: the original text of the block behind the order
\* prefixes written so far, outermost first.  "3. 1. <text>" is <<3, 1>>.
TextLabel(prefix) == [type |-> "str", prefix |-> prefix]

\* A label that is not a str (None, a number, ...): the annotator leaves it.
NonTextLabel == [type |-> "other", prefix |-> <<>>]

\* A successors attribute: its Python type and, for a collection, its items
\* in iteration order.
Successors(type, items) == [type |-> type, items |-> items]

\* A successors attribute that is no list, tuple or set.
NotIterable == Successors("other", <<>>)

VARIABLES
    orig,       \* the graph as the builder constructed it
    cfg,        \* the graph object being annotated (labels are rewritten)
    pc,         \* "idle" | "loop" | "returned": position of the current call
    run,        \* "first" | "again" | "copy": which call this is
    queue,      \* local: FIFO queue of block references
    visited,    \* local: set of blocks already processed
    order,      \* local: the next order number
    atCall,     \* history: the blocks when the current call began
    dequeued,   \* history: every block popped from the queue in this call
    processed,  \* history: the blocks that passed the visited check, in order
    first,      \* history: processed and blocks at the end of the first call
    ccInput,    \* calculate_cyclomatic_complexity: the file, radon's answer
    ccPc,       \* "idle" | "returned" | "raised"
    ccResults,  \* the list returned: finding lines or one message
    ccTotal,    \* the total returned
    dirs,       \* the temporary directories that exist
    files,      \* the content of every directory name, file by file
    inv,        \* the calls of generate_cfg_web, one per request
    img,        \* the call of generate_cfg_image
    up          \* the POST request upload_file is serving

annVars == <<orig, cfg, pc, run, queue, visited, order, atCall, dequeued,
             processed, first>>

ccVars == <<ccInput, ccPc, ccResults, ccTotal>>

webVars == <<dirs, files, inv>>

imgVars == <<img>>

upVars == <<up>>

vars == <<annVars, ccVars, webVars, imgVars, upVars>>

\* ------------------------------------------- the file system and the calls
\* The names tempfile.mkdtemp() can hand out (cfg_generator.py line 147).
NumDirs == 2

DirNames == 1..NumDirs

\* Two requests run generate_cfg_web side by side.
Invocations == {1, 2}

\* The two generate_cfg_web of the repository: cfg_generator.py lines
\* 129-171 (the one app.py imports) and CloudCFGMAKER.py lines 6-38.
Implementations == {"cfg_generator", "CloudCFGMAKER"}

\* The files written: the image (app.py line 87, output_filename) and the
\* file of the renderer sanity check (cfg_generator.py line 40).
FileNames == {"cfg.png", "basic_test.png"}

\* A file is absent, exists with size 0, or exists with a size above 0.
Contents == {"absent", "empty", "full"}

EmptyDir == [f \in FileNames |-> "absent"]

\* os.path.join(output_dir, output_filename); output_filename is a plain
\* file name.
Path(dir, name) == [dir |-> dir, name |-> name]

NoPath == Path(None, "")

\* os.path.dirname(path).
Dirname(path) == path.dir

\* An exception: its class and the parts of its message.
Err(kind, msg) == [kind |-> kind, msg |-> msg]

NoError == Err("none", <<>>)

\* What the file at input_file_path holds, as the graph builder sees it: it
\* builds a graph, raises SyntaxError, raises another exception, or returns
\* a falsy object.
SourceTexts == {"valid", "syntax error", "unsupported", "nothing built"}

\* What a call of the renderer does: it writes a non-empty file, writes an
\* empty file, writes nothing, raises CalledProcessError or
\* FileNotFoundError (the dot command), or raises another exception.
RenderOutcomes == {"full", "empty", "nothing", "dot failed", "raised"}

\* One call of generate_cfg_web: its arguments, its position, its locals and
\* the steps it has attempted.
Invocation(impl, exists, ext, source, at) ==
    [impl |-> impl, exists |-> exists, ext |-> ext, source |-> source,
     pc |-> at, outDir |-> None, outPath |-> NoPath, passed |-> FALSE,
     cause |-> NoError, error |-> NoError, result |-> NoPath,
     removed |-> FALSE, steps |-> <<>>]

NoInvocation == Invocation("cfg_generator", TRUE, ".py", "valid", "idle")

\* What the file at input_filepath of generate_cfg_image holds.
ImageSources ==
    {"valid", "syntax error", "unsupported", "empty", "whitespace", "comments"}

\* The graph the builder returned: whether it is truthy and what its entry
\* attribute is.
Built(truthy, entry) == [truthy |-> truthy, entry |-> entry]

NotBuilt == Built(FALSE, Missing)

\* One call of generate_cfg_image.
ImageCall(source, format, at) ==
    [source |-> source, format |-> format, pc |-> at, graph |-> NotBuilt,
     annotation |-> "not run", rendered |-> NotBuilt, render |-> "not run",
     error |-> NoError, result |-> NoPath, dirMade |-> FALSE, steps |-> <<>>]

NoImageCall == ImageCall("valid", "png", "idle")

\* No request is being served and the temporary directories are empty.
WebIdle ==
    /\ dirs = {}
    /\ files = [d \in DirNames |-> EmptyDir]
    /\ inv = [i \in Invocations |-> NoInvocation]

ImageIdle == img = NoImageCall

\* What file.save(input_path) does (app.py line 83): it writes the file, or
\* raises FileNotFoundError (the file name names a directory that does not
\* exist) or another OSError.
SaveOutcomes == {"saved", "FileNotFoundError", "OSError"}

\* A response of upload_file: its status and the page it leads to.
Response(status, page) == [status |-> status, page |-> page]

NoResponse == Response(0, "")

\* One POST that reached the try block of upload_file (app.py line 80): the
\* uploaded source, the locals and what the handler did.
Upload(source, at) ==
    [source |-> source, pc |-> at, inputDir |-> None, inputRemoved |-> FALSE,
     raised |-> NoError, response |-> NoResponse, propagated |-> NoError,
     steps |-> <<>>]

NoUpload == Upload("valid", "idle")

UploadIdle == up = NoUpload

\* ------------------------------------------------ annotate_execution_order
\* HasEntry without the test for None.
HasEntryAttribute(g) == g.entry # Missing

\* Lines 21-31: the call goes on only when cfg has an entry attribute that is
\* not None (and, line 27, is truthy: a block object always is).
HasEntry(g) == g.entry # Missing /\ g.entry # None

\* Line 43: getattr(node, 'label', None).
LabelOf(g, node) ==
    IF node \in Nodes THEN g.blocks[node].label ELSE NonTextLabel

\* Line 60: getattr(node, 'successors', []).
SuccessorsOf(g, node) ==
    IF node \in Nodes THEN g.blocks[node].successors ELSE Successors("list", <<>>)

\* pop(0) replaced by a read of queue[0] that removes nothing.
DequeueKept(q) == [node |-> Head(q), rest |-> q]

\* Dequeue as queue.pop(): the newest entry.
DequeueNewest(q) == [node |-> q[Len(q)], rest |-> SubSeq(q, 1, Len(q) - 1)]

\* Line 36: queue.pop(0) takes the oldest entry.
Dequeue(q) == [node |-> Head(q), rest |-> Tail(q)]

\* AlreadyVisited without the visited check.
NeverVisited(node, vis) == FALSE

\* Line 37: if node in visited: continue.
AlreadyVisited(node, vis) == node \in vis

\* Line 44: isinstance(current_label, str).  (Lines 52-55 catch the
\* AttributeError of a block whose label cannot be set; the blocks here are
\* plain objects, whose label can.)
IsText(label) == label.type = "str"

\* Prefixed as f"{order}.": the label is replaced, not prefixed.
Overwritten(n, label) == TextLabel(<<n>>)

\* Line 45: node.label = f"{order}. {current_label}".
Prefixed(n, label) == TextLabel(<<n>> \o label.prefix)

\* NextOrder stepping once per enqueued successor.
NextOrderPerEdge(n, enqueued) == n + Len(enqueued)

\* Line 57: order += 1, once per processed node.
NextOrder(n, enqueued) == n + 1

\* Line 61: isinstance(successors, (list, tuple, set)).
IsCollection(s) == s.type \in CollectionKinds

\* Enqueueable without the test for None.
EnqueueableNull(succ, vis) == succ \notin vis

\* Line 64: succ is not None and succ not in visited.
Enqueueable(succ, vis) == succ # None /\ succ \notin vis

\* Lines 61-67: the successors appended to the queue, in iteration order; a
\* successors attribute that is no collection is logged and adds nothing.
ToEnqueue(s, vis) ==
    IF IsCollection(s)
    THEN SelectSeq(s.items, LAMBDA succ : Enqueueable(succ, vis))
    ELSE <<>>

\* Lines 21-33: the entry of a call on graph g.
Enter(g) ==
    /\ atCall' = g.blocks
    /\ dequeued' = <<>>
    /\ processed' = <<>>
    /\ IF HasEntry(g)
       THEN /\ order' = 1
            /\ queue' = <<g.entry>>
            /\ visited' = {}
            /\ pc' = "loop"
       ELSE /\ pc' = "returned"
            /\ UNCHANGED <<order, queue, visited>>

\* An identical copy of a graph has the same blocks, labels and edges.  A set
\* iterates in an order that depends on the hashes of its members, which are
\* the addresses of the block objects, so a copy's sets may iterate in any
\* order; lists and tuples keep theirs.
IterationOrders(s) ==
    IF s.type = "set"
    THEN {Successors(s.type, t) :
            t \in {u \in [1..Len(s.items) -> Range(s.items)] :
                     Range(u) = Range(s.items)}}
    ELSE {s}

RECURSIVE CopiesUpTo(_, _)
CopiesUpTo(g, n) ==
    IF n = 0
    THEN {<<>>}
    ELSE {Append(b, [label |-> g.blocks[n].label, successors |-> s]) :
            b \in CopiesUpTo(g, n - 1),
            s \in IterationOrders(g.blocks[n].successors)}

Copies(g) == {[g EXCEPT !.blocks = b] : b \in CopiesUpTo(g, NumNodes)}

\* ----------------------------------------- calculate_cyclomatic_complexity
\* What the file at filepath holds (lines 84-86, 92): it cannot be read, it
\* is empty, it is whitespace only, radon cannot parse it, or radon parses it.
SourceKinds == {"unreadable", "empty", "whitespace", "unparsable", "parsed"}

\* A block of cc_visit's answer (line 92): a function or method, or a class.
\* radon's Function has the attributes name, lineno, endline, classname and
\* complexity; its Class has no attribute classname.
Block(kind, complexity) == [kind |-> kind, complexity |-> complexity]

\* The complexities tried: radon's least, the values on both sides of every
\* limit of the rank table, and one far beyond.
Scores == {1, 5, 6, 10, 11, 20, 21, 30, 31, 40, 41, 1000}

BlockValues == {Block(k, c) : k \in {"Function", "Class"}, c \in Scores}

\* An item of a rank table: a (limit, rank) pair, or something else.  The
\* limit of a pair is a number, infinite or not, or no number at all.
Pair(limit, rank) == [shape |-> "pair", limit |-> limit, rank |-> rank]

Upto(n) == [type |-> "int", inf |-> FALSE, value |-> n]

Unbounded == [type |-> "float", inf |-> TRUE, value |-> 0]

NotANumber == [type |-> "str", inf |-> FALSE, value |-> 0]

NotAPair == [shape |-> "other", limit |-> NotANumber, rank |-> "?"]

\* The values getattr(radon.complexity, 'SCORE', None) may have (line 104).
\* In radon SCORE is the sort key of sorted_results, a function; the lookup
\* of lines 112-120 is written for a list or tuple of (limit, rank) pairs.
ScoreData(type, entries) == [type |-> type, entries |-> entries]

RankTable ==
    <<Pair(Upto(5), "A"), Pair(Upto(10), "B"), Pair(Upto(20), "C"),
      Pair(Upto(30), "D"), Pair(Upto(40), "E"), Pair(Unbounded, "F")>>

ScoreDataValues ==
    { ScoreData("function", <<>>),
      ScoreData("NoneType", <<>>),
      ScoreData("list", RankTable),
      ScoreData("tuple", RankTable),
      ScoreData("list", SubSeq(RankTable, 1, 5)),
      ScoreData("list", <<NotAPair>> \o RankTable),
      ScoreData("list", <<Pair(NotANumber, "B")>> \o RankTable) }

NoInput == [source |-> "empty", blocks |-> <<>>, score |-> ScoreData("NoneType", <<>>)]

\* A line of the returned list.
Message(text) == [line |-> "message", text |-> text, score |-> 0, rank |-> "-"]

\* Lines 129-132: the line of a block.
Finding(i, block, rank) ==
    [line |-> "finding", text |-> i, score |-> block.complexity, rank |-> rank]

\* Line 86: not code.strip().
IsBlank(source) == source \in {"empty", "whitespace"}

\* Line 112: isinstance(score_data, (list, tuple)).
IsTable(sd) == sd.type \in {"list", "tuple"}

\* Lines 114-118: the entry is a pair with a numeric limit that the
\* complexity does not exceed.
Matches(complexity, entry) ==
    /\ entry.shape = "pair"
    /\ entry.limit.type \in {"int", "float"}
    /\ (entry.limit.inf \/ complexity <= entry.limit.value)

\* Lines 109-127: the rank of a complexity; 'A' unless an entry matches.
RankOf(complexity, sd) ==
    IF IsTable(sd) /\ \E i \in 1..Len(sd.entries) : Matches(complexity, sd.entries[i])
    THEN LET i == CHOOSE k \in 1..Len(sd.entries) :
                    /\ Matches(complexity, sd.entries[k])
                    /\ \A j \in 1..(k - 1) : ~Matches(complexity, sd.entries[j])
         IN sd.entries[i].rank
    ELSE "A"

\* Line 130: block.classname raises AttributeError on a block without it.
HasClassname(block) == block.kind = "Function"

RECURSIVE SumOf(_)
SumOf(scores) == IF scores = <<>> THEN 0 ELSE Head(scores) + SumOf(Tail(scores))

\* Analysed without the message for a source without blocks.
AnalysedNoMessage(blocks, sd) ==
    IF \E i \in 1..Len(blocks) : ~HasClassname(blocks[i])
    THEN [results |-> <<Message("Error during complexity analysis: AttributeError")>>,
          total |-> 0]
    ELSE [results |-> [i \in 1..Len(blocks) |->
                         Finding(i, blocks[i], RankOf(blocks[i].complexity, sd))],
          total |-> SumOf([i \in 1..Len(blocks) |-> blocks[i].complexity])]

\* Lines 98-134: the list and the total for the blocks radon reported.  The
\* loop raises at the first block without classname; line 143 catches it.
Analysed(blocks, sd) ==
    IF blocks = <<>>
    THEN [results |-> <<Message("No functions or methods found for complexity analysis.")>>,
          total |-> 0]
    ELSE IF \E i \in 1..Len(blocks) : ~HasClassname(blocks[i])
    THEN [results |-> <<Message("Error during complexity analysis: AttributeError")>>,
          total |-> 0]
    ELSE [results |-> [i \in 1..Len(blocks) |->
                         Finding(i, blocks[i], RankOf(blocks[i].complexity, sd))],
          total |-> SumOf([i \in 1..Len(blocks) |-> blocks[i].complexity])]

\* Lines 81-146: what the call returns.
Complexity(in) ==
    IF in.source = "unreadable"
    THEN [results |-> <<Message("Error during complexity analysis: OSError")>>, total |-> 0]
    ELSE IF IsBlank(in.source)
    THEN [results |-> <<Message("Source file is empty.")>>, total |-> 0]
    ELSE IF in.source = "unparsable"
    THEN [results |-> <<Message("Error parsing code for complexity: SyntaxError")>>,
          total |-> 0]
    ELSE Analysed(in.blocks, in.score)

\* The graph of a state in which only the complexity analyzer runs.
NoGraph ==
    [entry |-> Missing,
     blocks |-> [n \in Nodes |-> [label |-> TextLabel(<<>>),
                                  successors |-> Successors("list", <<>>)]]]

InitComplexity ==
    /\ \E src \in SourceKinds, sd \in ScoreDataValues,
          bs \in SeqsUpTo(BlockValues, MaxBlocks) :
          /\ src # "parsed" => bs = <<>>
          /\ ccInput = [source |-> src, blocks |-> bs, score |-> sd]
    /\ ccPc = "idle"
    /\ ccResults = <<>>
    /\ ccTotal = 0
    /\ orig = NoGraph
    /\ cfg = NoGraph
    /\ pc = "idle"
    /\ run = "first"
    /\ queue = <<>>
    /\ visited = {}
    /\ order = 0
    /\ atCall = NoGraph.blocks
    /\ dequeued = <<>>
    /\ processed = <<>>
    /\ first = [processed |-> <<>>, blocks |-> NoGraph.blocks]
    /\ WebIdle
    /\ ImageIdle
    /\ UploadIdle

\* calculate_cyclomatic_complexity(filepath).
Calculate ==
    /\ ccPc = "idle"
    /\ ccPc' = "returned"
    /\ ccResults' = Complexity(ccInput).results
    /\ ccTotal' = Complexity(ccInput).total
    /\ UNCHANGED ccInput
    /\ UNCHANGED <<annVars, webVars, imgVars, upVars>>

NextComplexity == Calculate

SpecComplexity == InitComplexity /\ [][NextComplexity]_vars

\* ------------------------------------------------------------- the graphs
NullEntries(items) == Cardinality({i \in 1..Len(items) : items[i] = None})

DefectsOf(block) ==
    (IF block.label.type = "str" THEN 0 ELSE 1)
    + (IF block.successors.type = "other" THEN 1 ELSE 0)
    + NullEntries(block.successors.items)

SizeOf(block) == Len(block.successors.items) + DefectsOf(block)

\* What one block may look like in a graph whose successors are of type kind.
BlockChoices(kind) ==
    { [label |-> l, successors |-> s] :
        l \in {TextLabel(<<>>), NonTextLabel},
        s \in {Successors(kind, it) :
                 it \in {x \in SeqsUpTo(Nodes \cup {None}, MaxSucc) :
                           kind = "set" => NoDup(x)}}
              \cup {NotIterable} }

\* The graphs the builder may hand over: every block's successors is of the
\* one collection type the builder uses, the graph has at most MaxSize
\* successor entries and defects, of them at most MaxDefects defects.  Blocks
\* are interchangeable, so the entry, when there is one, is block 1.
\* BuiltGraph(kind, blocks, size, defects): orig is a graph that begins with
\* the given blocks and goes on with blocks of at most that size and defects.
RECURSIVE BuiltGraph(_, _, _, _)
BuiltGraph(kind, blocks, size, defects) ==
    IF Len(blocks) = NumNodes
    THEN \E e \in {Missing, None, 1} : orig = [entry |-> e, blocks |-> blocks]
    ELSE \E c \in BlockChoices(kind) :
            /\ SizeOf(c) <= size
            /\ DefectsOf(c) <= defects
            /\ BuiltGraph(kind, Append(blocks, c), size - SizeOf(c),
                          defects - DefectsOf(c))

Init ==
    /\ \E kind \in CollectionKinds : BuiltGraph(kind, <<>>, MaxSize, MaxDefects)
    /\ cfg = orig
    /\ pc = "idle"
    /\ run = "first"
    /\ queue = <<>>
    /\ visited = {}
    /\ order = 0
    /\ atCall = orig.blocks
    /\ dequeued = <<>>
    /\ processed = <<>>
    /\ first = [processed |-> <<>>, blocks |-> orig.blocks]
    /\ ccInput = NoInput
    /\ ccPc = "idle"
    /\ ccResults = <<>>
    /\ ccTotal = 0
    /\ WebIdle
    /\ ImageIdle
    /\ UploadIdle

\* The first call: annotate_execution_order(cfg).
AnnotateFirst ==
    /\ pc = "idle"
    /\ Enter(cfg)
    /\ UNCHANGED <<orig, cfg, run, first>>
    /\ UNCHANGED <<ccVars, webVars, imgVars, upVars>>

\* A second call on the same graph object, after the first returned.
AnnotateAgain ==
    /\ pc = "returned"
    /\ run = "first"
    /\ run' = "again"
    /\ first' = [processed |-> processed, blocks |-> cfg.blocks]
    /\ Enter(cfg)
    /\ UNCHANGED <<orig, cfg>>
    /\ UNCHANGED <<ccVars, webVars, imgVars, upVars>>

\* A call on an identical copy of the graph as it was built.
AnnotateCopy ==
    /\ pc = "returned"
    /\ run = "first"
    /\ run' = "copy"
    /\ first' = [processed |-> processed, blocks |-> cfg.blocks]
    /\ \E c \in Copies(orig) :
          /\ cfg' = c
          /\ Enter(c)
    /\ UNCHANGED orig
    /\ UNCHANGED <<ccVars, webVars, imgVars, upVars>>

\* Lines 35-67: one iteration of the while loop.
Iterate ==
    /\ pc = "loop"
    /\ queue # <<>>
    /\ LET node == Dequeue(queue).node
           rest == Dequeue(queue).rest
       IN /\ dequeued' = Append(dequeued, node)
          /\ IF AlreadyVisited(node, visited)
             THEN /\ queue' = rest
                  /\ UNCHANGED <<cfg, visited, order, processed>>
             ELSE LET vis == visited \cup {node}
                      new == ToEnqueue(SuccessorsOf(cfg, node), vis)
                  IN /\ visited' = vis
                     /\ processed' = Append(processed, node)
                     /\ cfg' = IF node \in Nodes /\ IsText(LabelOf(cfg, node))
                               THEN [cfg EXCEPT !.blocks[node].label = Prefixed(order, @)]
                               ELSE cfg
                     /\ order' = NextOrder(order, new)
                     /\ queue' = rest \o new
    /\ UNCHANGED <<orig, pc, run, atCall, first>>
    /\ UNCHANGED <<ccVars, webVars, imgVars, upVars>>

\* Line 35: the queue is empty, the loop ends and the call returns.
Return ==
    /\ pc = "loop"
    /\ queue = <<>>
    /\ pc' = "returned"
    /\ UNCHANGED <<orig, cfg, run, queue, visited, order, atCall, dequeued,
                   processed, first>>
    /\ UNCHANGED <<ccVars, webVars, imgVars, upVars>>

Next ==
    \/ AnnotateFirst
    \/ AnnotateAgain
    \/ AnnotateCopy
    \/ Iterate
    \/ Return

Spec == Init /\ [][Next]_vars

TypeOK ==
    /\ pc \in {"idle", "loop", "returned"}
    /\ run \in {"first", "again", "copy"}
    /\ visited \subseteq Nodes \cup {None}

\* ------------------------------------------------- the graph, as a graph
\* The edges out of block n: the non-null entries of a successors collection.
EdgesFrom(g, n) ==
    IF g.blocks[n].successors.type \in {"list", "tuple", "set"}
    THEN Range(g.blocks[n].successors.items) \ {None}
    ELSE {}

\* The blocks at most k edges away from the entry.
RECURSIVE Within(_, _)
Within(g, k) ==
    IF k = 0
    THEN {g.entry}
    ELSE LET near == Within(g, k - 1)
         IN near \cup UNION {EdgesFrom(g, n) : n \in near}

Reachable(g) == IF g.entry \in Nodes THEN Within(g, NumNodes) ELSE {}

\* The length of a shortest path from the entry to a reachable block n.
Distance(g, n) ==
    CHOOSE k \in 0..NumNodes :
        n \in Within(g, k) /\ \A j \in 0..(k - 1) : n \notin Within(g, j)

PositionIn(s, n) == CHOOSE i \in 1..Len(s) : s[i] = n

Occurrences(s, n) == Cardinality({i \in 1..Len(s) : s[i] = n})

\* s without the repetitions of an element after its first occurrence.
FirstOccurrences(s) ==
    LET keep == {i \in 1..Len(s) : \A j \in 1..(i - 1) : s[j] # s[i]}
        Nth(i) == CHOOSE k \in keep : Cardinality({j \in keep : j < k}) = i - 1
    IN [i \in 1..Cardinality(keep) |-> s[Nth(i)]]

\* The label of block n carries number k in front of what it was at the call.
NumberedAs(n, k) ==
    cfg.blocks[n].label = TextLabel(<<k>> \o atCall[n].label.prefix)

\* ------------------------------------------------------------------ claims

\* C1: for a graph with an entry, the k-th block processed is numbered k
\* (from 1, one step per processed block): order is always one more than the
\* number of blocks processed, no block is processed twice, the text label
\* of the k-th processed block is prefixed once, with k, every other block
\* is untouched, and at the return the processed blocks are exactly the
\* blocks reachable from the entry.
C1_OrderNumbering ==
    (pc # "idle" /\ cfg.entry \in Nodes) =>
        /\ order = Len(processed) + 1
        /\ NoDup(processed)
        /\ \A i \in 1..Len(processed) :
              /\ processed[i] \in Nodes
              /\ atCall[processed[i]].label.type = "str"
                    => NumberedAs(processed[i], i)
        /\ \A n \in Nodes \ Range(processed) : cfg.blocks[n] = atCall[n]
        /\ pc = "returned" => Range(processed) = Reachable(cfg)

\* A call returned that numbered three blocks or more, one of them popped
\* more than once, and left an unreachable block alone.
C1_Witness ==
    /\ pc = "returned"
    /\ run = "first"
    /\ Len(processed) >= 3
    /\ Len(dequeued) > Len(processed)
    /\ Reachable(cfg) # Nodes
    /\ \A n \in Nodes : orig.blocks[n].label.type = "str"

\* C2 as stated: no block is popped from the queue twice in one call.
C2_DequeuedAtMostOnce == NoDup(dequeued)

\* C2, amended: a block may be popped more than once, but only its first pop
\* is processed: the processed blocks are the pops without their repetitions.
C2_ProcessedAtMostOnce ==
    /\ processed = FirstOccurrences(dequeued)
    /\ pc # "idle" => visited = Range(processed)

\* A call returned in which some block was popped twice.
C2_Witness ==
    /\ pc = "returned"
    /\ \E n \in Nodes : Occurrences(dequeued, n) >= 2 /\ Occurrences(processed, n) = 1

\* C3: the numbering is breadth first: of two reachable blocks, the one
\* nearer to the entry is processed (numbered) first.
C3_BreadthFirst ==
    (pc = "returned" /\ cfg.entry \in Nodes) =>
        \A u, v \in Reachable(cfg) \cap Range(processed) :
            Distance(cfg, u) < Distance(cfg, v)
                => PositionIn(processed, u) < PositionIn(processed, v)

\* A call returned on a graph with two blocks next to the entry, the first
\* of which has a successor two edges away from the entry.
C3_Witness ==
    /\ pc = "returned"
    /\ Len(processed) >= 4
    /\ \E u, v, w \in Range(processed) :
          /\ u # v
          /\ Distance(cfg, u) = 1
          /\ Distance(cfg, v) = 1
          /\ Distance(cfg, w) = 2
          /\ PositionIn(processed, u) < PositionIn(processed, v)
          /\ w \in EdgesFrom(cfg, u)

\* C4 as stated: a call on an identical copy of the graph processes the
\* blocks in the order of the first call and leaves the labels of the first
\* call, whatever collection type the successors are.
C4_CopyNumberedAlike ==
    (run = "copy" /\ pc = "returned") =>
        /\ processed = first.processed
        /\ \A n \in Nodes : cfg.blocks[n].label = first.blocks[n].label

\* C5: with no entry (the attribute is missing or None) a call never enters
\* the loop and changes nothing: no block is popped or processed, every
\* block is as it was when the call began, and the graph object the builder
\* made is as it was built.
C5_NoEntryNoOp ==
    cfg.entry \in {Missing, None} =>
        /\ pc \in {"idle", "returned"}
        /\ cfg.blocks = atCall
        /\ run # "copy" => cfg = orig
        /\ processed = <<>>
        /\ dequeued = <<>>

\* A call on a graph without entry returned.
C5_Witness ==
    /\ pc = "returned"
    /\ run = "first"
    /\ cfg.entry = None
    /\ \E n \in Nodes : cfg.blocks[n].successors.items # <<>>

\* C6: defects do not stop the traversal.  At the return a label that is no
\* text is as it was, no successors attribute changed, and the processed
\* blocks are exactly those reachable over the non-null entries of the
\* successors that are collections; each of them with a text label is
\* numbered with its position.
C6_DefectsSkipped ==
    (pc = "returned" /\ cfg.entry \in Nodes) =>
        /\ \A n \in Nodes :
              /\ cfg.blocks[n].successors = atCall[n].successors
              /\ atCall[n].label.type # "str" => cfg.blocks[n].label = atCall[n].label
        /\ Range(processed) = Reachable(cfg)
        /\ \A n \in Reachable(cfg) :
              atCall[n].label.type = "str"
                  => \E k \in 1..Len(processed) : processed[k] = n /\ NumberedAs(n, k)

\* A call returned that met a defect at a processed block and processed
\* another block after it.
C6_Witness ==
    /\ pc = "returned"
    /\ run = "first"
    /\ \E i, j \in 1..Len(processed) :
          /\ i < j
          /\ \/ cfg.blocks[processed[i]].successors.type = "other"
             \/ cfg.blocks[processed[i]].label.type # "str"
             \/ /\ Len(cfg.blocks[processed[i]].successors.items) = 2
                /\ cfg.blocks[processed[i]].successors.items[1] = None
                /\ cfg.blocks[processed[i]].successors.items[2] = processed[j]

\* C7: a second call on the same graph processes the blocks in the order of
\* the first call; it changes no successors and nothing but the text labels
\* of the processed blocks, which get the same number in front once more.
C7_SecondRunSameOrder ==
    (run = "again" /\ pc = "returned") =>
        /\ processed = first.processed
        /\ \A n \in Nodes :
              /\ cfg.blocks[n].successors = first.blocks[n].successors
              /\ IF n \in Range(processed) /\ first.blocks[n].label.type = "str"
                 THEN cfg.blocks[n].label =
                        TextLabel(<<PositionIn(first.processed, n)>>
                                  \o first.blocks[n].label.prefix)
                 ELSE cfg.blocks[n].label = first.blocks[n].label

\* A second call on the same graph returned, having numbered three blocks.
C7_Witness ==
    /\ run = "again"
    /\ pc = "returned"
    /\ Len(processed) >= 3
    /\ \A n \in Range(processed) : Len(cfg.blocks[n].label.prefix) = 2

\* The rank table of the specification: inclusive upper bounds, scanned in
\* ascending order, the first match wins.
TableRank(score) ==
    IF score <= 5 THEN "A"
    ELSE IF score <= 10 THEN "B"
    ELSE IF score <= 20 THEN "C"
    ELSE IF score <= 30 THEN "D"
    ELSE IF score <= 40 THEN "E"
    ELSE "F"

\* C8 as stated: the rank of every finding is the rank of its score in the
\* fixed table (5 A, 10 B, 20 C, 30 D, 40 E, beyond F).
C8_RankByTable ==
    ccPc = "returned" =>
        \A i \in 1..Len(ccResults) :
            ccResults[i].line = "finding"
                => ccResults[i].rank = TableRank(ccResults[i].score)

\* C9 as stated: for a source with a function or method, the list has one
\* finding per block, in the order of the blocks, each with the score of its
\* block, at least 1, and the total is the sum of the scores of the list.
C9_OneFindingPerBlock ==
    (/\ ccPc = "returned"
     /\ ccInput.source = "parsed"
     /\ \E i \in 1..Len(ccInput.blocks) : ccInput.blocks[i].kind = "Function") =>
        /\ Len(ccResults) = Len(ccInput.blocks)
        /\ \A i \in 1..Len(ccResults) :
              /\ ccResults[i].line = "finding"
              /\ ccResults[i].text = i
              /\ ccResults[i].score = ccInput.blocks[i].complexity
              /\ ccResults[i].score >= 1
        /\ ccTotal = SumOf([i \in 1..Len(ccResults) |-> ccResults[i].score])

\* C10: for an empty or whitespace-only source, and for a source that parses
\* but has no function or method, the call returns (it does not raise) a
\* list of exactly one message and the total 0; the message is "Source file
\* is empty." for the former and "No functions or methods found ..." for a
\* source without any block.
C10_DegenerateResult ==
    /\ ccPc \in {"idle", "returned"}
    /\ (/\ ccPc = "returned"
        /\ \/ ccInput.source \in {"empty", "whitespace"}
           \/ /\ ccInput.source = "parsed"
              /\ \A i \in 1..Len(ccInput.blocks) : ccInput.blocks[i].kind # "Function") =>
          /\ Len(ccResults) = 1
          /\ ccResults[1].line = "message"
          /\ ccTotal = 0
    /\ (ccPc = "returned" /\ ccInput.source \in {"empty", "whitespace"}) =>
          ccResults = <<Message("Source file is empty.")>>
    /\ (ccPc = "returned" /\ ccInput.source = "parsed" /\ ccInput.blocks = <<>>) =>
          ccResults =
             <<Message("No functions or methods found for complexity analysis.")>>

\* The call returned for a source that parses to no block.
C10_Witness ==
    /\ ccPc = "returned"
    /\ ccInput.source = "parsed"
    /\ ccInput.blocks = <<>>
    /\ Len(ccResults) = 1

\* C11 as stated: for a source that cannot be parsed the call does not return
\* a list; it ends by raising SyntaxError to its caller.
C11_UnparsableRaises ==
    ccInput.source = "unparsable" => ccPc \in {"idle", "raised SyntaxError"}

\* -------------------------------------------------------- generate_cfg_web
\* The annotator and the complexity analyzer are not running.
AnnotatorIdle ==
    /\ orig = NoGraph
    /\ cfg = NoGraph
    /\ pc = "idle"
    /\ run = "first"
    /\ queue = <<>>
    /\ visited = {}
    /\ order = 0
    /\ atCall = NoGraph.blocks
    /\ dequeued = <<>>
    /\ processed = <<>>
    /\ first = [processed |-> <<>>, blocks |-> NoGraph.blocks]

ComplexityIdle ==
    /\ ccInput = NoInput
    /\ ccPc = "idle"
    /\ ccResults = <<>>
    /\ ccTotal = 0

\* cfg_generator.py lines 140-143: existence first, then the extension.
\* CloudCFGMAKER.py lines 23-24: the extension only.
Validation(call) ==
    IF call.impl = "cfg_generator" /\ ~call.exists
    THEN Err("FileNotFoundError", <<"Input file not found at: ">>)
    ELSE IF call.ext # ".py"
    THEN Err("ValueError", <<"Input must be a Python file (.py).">>)
    ELSE NoError

\* mkdtemp handing out one fixed name.
AnyName(existing) == DirNames

\* cfg_generator.py line 147, CloudCFGMAKER.py line 27: tempfile.mkdtemp()
\* creates a directory under a name no existing directory has.
FreshNames(existing) == DirNames \ existing

\* The output check accepting any existing file.
OutputExists(content) == content # "absent"

\* cfg_generator.py lines 45 and 116: os.path.exists(p) and
\* os.path.getsize(p) > 0.
OutputValid(content) == content = "full"

\* cfg_generator.py lines 80-93: the error of the build step.
BuildError(source) ==
    IF source = "syntax error"
    THEN Err("RuntimeError", <<"Input file contains syntax errors: ", "(line n)">>)
    ELSE IF source = "unsupported"
    THEN Err("RuntimeError", <<"Failed to build CFG object using staticfg: ">>)
    ELSE IF source = "nothing built"
    THEN Err("RuntimeError", <<"Failed to build CFG object with staticfg.">>)
    ELSE NoError

\* CloudCFGMAKER.py lines 32-34: the exception build_from_file raises, or
\* the RuntimeError of line 34.
CloudBuildError(call) ==
    IF ~call.exists THEN Err("FileNotFoundError", <<"No such file or directory">>)
    ELSE IF call.source = "syntax error" THEN Err("SyntaxError", <<"(line n)">>)
    ELSE IF call.source = "unsupported" THEN Err("Exception", <<"build failed">>)
    ELSE IF call.source = "nothing built"
    THEN Err("RuntimeError", <<"Generated CFG is empty.">>)
    ELSE NoError

\* CloudCFGMAKER.py lines 37-38: every exception is replaced by a
\* RuntimeError whose message quotes it.
Wrapped(e) == Err("RuntimeError", <<"Failed to generate CFG: ">> \o e.msg)

\* cfg_generator.py line 171: raise e.
Reraised(e) == e

Written(dir, name, content) == [files EXCEPT ![dir][name] = content]

Step(call, name) == Append(call.steps, name)

InitWeb ==
    /\ dirs = {}
    /\ files = [d \in DirNames |-> EmptyDir]
    /\ inv \in [Invocations ->
                 { Invocation(impl, exists, ext, source, "start") :
                     impl \in Implementations, exists \in BOOLEAN,
                     ext \in {".py", ".txt"}, source \in SourceTexts }]
    /\ \A i \in Invocations :
          (~inv[i].exists \/ inv[i].ext # ".py") => inv[i].source = "valid"
    /\ AnnotatorIdle
    /\ ComplexityIdle
    /\ ImageIdle
    /\ UploadIdle

\* The input validation of both implementations.
Validate(i) ==
    /\ inv[i].pc = "start"
    /\ inv' = [inv EXCEPT ![i] =
                 IF Validation(@) # NoError
                 THEN [@ EXCEPT !.pc = "raised", !.cause = Validation(inv[i]),
                                !.error = Validation(inv[i])]
                 ELSE [@ EXCEPT !.pc = "mkdtemp"]]
    /\ UNCHANGED <<dirs, files>>
    /\ UNCHANGED <<annVars, ccVars, imgVars, upVars>>

\* _generate_and_visualize_cfg beginning with the build.
BuildFirst(impl) == IF impl = "cfg_generator" THEN "build" ELSE "cloud build"

\* The first step after mkdtemp: the renderer sanity check of
\* _generate_and_visualize_cfg (cfg_generator.py lines 32-36), or the build
\* of CloudCFGMAKER.py line 32.
FirstStep(impl) == IF impl = "cfg_generator" THEN "sanity" ELSE "cloud build"

\* cfg_generator.py lines 147-148, CloudCFGMAKER.py lines 27-28.
Mkdtemp(i) ==
    /\ inv[i].pc = "mkdtemp"
    /\ \E d \in FreshNames(dirs) :
          /\ dirs' = dirs \cup {d}
          /\ files' = [files EXCEPT ![d] = EmptyDir]
          /\ inv' = [inv EXCEPT ![i] =
                       [@ EXCEPT !.outDir = d,
                                 !.outPath = Path(d, "cfg.png"),
                                 !.steps = Step(inv[i], "mkdtemp"),
                                 !.pc = FirstStep(inv[i].impl)]]
    /\ UNCHANGED <<annVars, ccVars, imgVars, upVars>>

\* cfg_generator.py lines 36-43 and 60-70: the renderer draws the test graph
\* next to the image.
SanityRender(i) ==
    /\ inv[i].pc = "sanity"
    /\ \E o \in RenderOutcomes :
          LET call == [inv[i] EXCEPT !.steps = Step(inv[i], "sanity")]
              raise(e) == [call EXCEPT !.pc = "except", !.cause = e, !.error = e]
          IN  CASE o \in {"full", "empty"} ->
                    /\ files' = Written(Dirname(call.outPath), "basic_test.png", o)
                    /\ inv' = [inv EXCEPT ![i] = [call EXCEPT !.pc = "sanity check"]]
                [] o = "nothing" ->
                    /\ files' = files
                    /\ inv' = [inv EXCEPT ![i] = [call EXCEPT !.pc = "sanity check"]]
                [] o = "dot failed" ->
                    /\ files' = files
                    /\ inv' = [inv EXCEPT ![i] = raise(Err("RuntimeError",
                            <<"Basic graphviz test failed ('dot' command error).">>))]
                [] o = "raised" ->
                    /\ files' = files
                    /\ inv' = [inv EXCEPT ![i] = raise(Err("RuntimeError",
                            <<"Basic graphviz test failed: ">>))]
    /\ UNCHANGED dirs
    /\ UNCHANGED <<annVars, ccVars, imgVars, upVars>>

\* cfg_generator.py lines 45-58 and 68-70: the test file must exist and be
\* non-empty; it is then removed, unless os.remove fails.
SanityCheck(i) ==
    /\ inv[i].pc = "sanity check"
    /\ LET dir == Dirname(inv[i].outPath)
       IN IF OutputValid(files[dir]["basic_test.png"])
          THEN /\ inv' = [inv EXCEPT ![i] = [@ EXCEPT !.passed = TRUE, !.pc = "build"]]
               /\ \/ files' = Written(dir, "basic_test.png", "absent")
                  \/ files' = files
          ELSE /\ inv' = [inv EXCEPT ![i] =
                            [@ EXCEPT !.pc = "except",
                                      !.cause = Err("RuntimeError",
                                          <<"Basic graphviz test failed: ",
                                            "Basic graphviz test failed - 'dot'">>),
                                      !.error = Err("RuntimeError",
                                          <<"Basic graphviz test failed: ",
                                            "Basic graphviz test failed - 'dot'">>)]]
               /\ files' = files
    /\ UNCHANGED dirs
    /\ UNCHANGED <<annVars, ccVars, imgVars, upVars>>

\* cfg_generator.py lines 74-93.
Build(i) ==
    /\ inv[i].pc = "build"
    /\ LET call == [inv[i] EXCEPT !.steps = Step(inv[i], "build")]
           e == BuildError(call.source)
       IN inv' = [inv EXCEPT ![i] =
                    IF e # NoError
                    THEN [call EXCEPT !.pc = "except", !.cause = e, !.error = e]
                    ELSE [call EXCEPT !.pc = "render"]]
    /\ UNCHANGED <<dirs, files>>
    /\ UNCHANGED <<annVars, ccVars, imgVars, upVars>>

\* cfg_generator.py lines 95-113.
Render(i) ==
    /\ inv[i].pc = "render"
    /\ \E o \in RenderOutcomes :
          LET call == [inv[i] EXCEPT !.steps = Step(inv[i], "render")]
              raise(e) == [call EXCEPT !.pc = "except", !.cause = e, !.error = e]
          IN  CASE o \in {"full", "empty"} ->
                    /\ files' = Written(call.outPath.dir, call.outPath.name, o)
                    /\ inv' = [inv EXCEPT ![i] = [call EXCEPT !.pc = "output check"]]
                [] o = "nothing" ->
                    /\ files' = files
                    /\ inv' = [inv EXCEPT ![i] = [call EXCEPT !.pc = "output check"]]
                [] o = "dot failed" ->
                    /\ files' = files
                    /\ inv' = [inv EXCEPT ![i] = raise(Err("RuntimeError",
                            <<"Graphviz 'dot' command failed during staticfg render.">>))]
                [] o = "raised" ->
                    /\ files' = files
                    /\ inv' = [inv EXCEPT ![i] = raise(Err("RuntimeError",
                            <<"Error occurred during CFG visualization via staticfg: ">>))]
    /\ UNCHANGED dirs
    /\ UNCHANGED <<annVars, ccVars, imgVars, upVars>>

\* cfg_generator.py lines 115-124 and 156.
OutputCheck(i) ==
    /\ inv[i].pc = "output check"
    /\ LET call == [inv[i] EXCEPT !.steps = Step(inv[i], "check")]
           e == Err("RuntimeError", <<"CFG visualization failed: Output invalid">>)
       IN inv' = [inv EXCEPT ![i] =
                    IF OutputValid(files[call.outPath.dir][call.outPath.name])
                    THEN [call EXCEPT !.pc = "returned", !.result = call.outPath]
                    ELSE [call EXCEPT !.pc = "except", !.cause = e, !.error = e]]
    /\ UNCHANGED <<dirs, files>>
    /\ UNCHANGED <<annVars, ccVars, imgVars, upVars>>

\* cfg_generator.py lines 158-171: shutil.rmtree removes the output
\* directory, or fails and is logged; then the exception is raised again.
Cleanup(i) ==
    /\ inv[i].pc = "except"
    /\ LET call == [inv[i] EXCEPT !.steps = Step(inv[i], "cleanup"),
                                  !.pc = "raised",
                                  !.error = Reraised(inv[i].cause)]
           d == call.outDir
       IN IF d # None /\ d \in dirs
          THEN \/ /\ dirs' = dirs \ {d}
                  /\ files' = [files EXCEPT ![d] = EmptyDir]
                  /\ inv' = [inv EXCEPT ![i] = [call EXCEPT !.removed = TRUE]]
               \/ /\ inv' = [inv EXCEPT ![i] = call]
                  /\ UNCHANGED <<dirs, files>>
          ELSE /\ inv' = [inv EXCEPT ![i] = call]
               /\ UNCHANGED <<dirs, files>>
    /\ UNCHANGED <<annVars, ccVars, imgVars, upVars>>

\* CloudCFGMAKER.py lines 32-34 and 37-38.
CloudBuild(i) ==
    /\ inv[i].pc = "cloud build"
    /\ LET call == [inv[i] EXCEPT !.steps = Step(inv[i], "build")]
           e == CloudBuildError(call)
       IN inv' = [inv EXCEPT ![i] =
                    IF e # NoError
                    THEN [call EXCEPT !.pc = "raised", !.cause = e, !.error = Wrapped(e)]
                    ELSE [call EXCEPT !.pc = "cloud visual"]]
    /\ UNCHANGED <<dirs, files>>
    /\ UNCHANGED <<annVars, ccVars, imgVars, upVars>>

\* CloudCFGMAKER.py lines 35-38.
CloudVisual(i) ==
    /\ inv[i].pc = "cloud visual"
    /\ \E o \in RenderOutcomes :
          LET call == [inv[i] EXCEPT !.steps = Step(inv[i], "render")]
              raise(e) == [call EXCEPT !.pc = "raised", !.cause = e, !.error = Wrapped(e)]
          IN  CASE o \in {"full", "empty"} ->
                    /\ files' = Written(call.outPath.dir, call.outPath.name, o)
                    /\ inv' = [inv EXCEPT ![i] =
                                 [call EXCEPT !.pc = "returned", !.result = call.outPath]]
                [] o = "nothing" ->
                    /\ files' = files
                    /\ inv' = [inv EXCEPT ![i] =
                                 [call EXCEPT !.pc = "returned", !.result = call.outPath]]
                [] o = "dot failed" ->
                    /\ files' = files
                    /\ inv' = [inv EXCEPT ![i] =
                                 raise(Err("CalledProcessError", <<"dot">>))]
                [] o = "raised" ->
                    /\ files' = files
                    /\ inv' = [inv EXCEPT ![i] = raise(Err("Exception", <<"render">>))]
    /\ UNCHANGED dirs
    /\ UNCHANGED <<annVars, ccVars, imgVars, upVars>>

NextWeb ==
    \E i \in Invocations :
        \/ Validate(i)
        \/ Mkdtemp(i)
        \/ SanityRender(i)
        \/ SanityCheck(i)
        \/ Build(i)
        \/ Render(i)
        \/ OutputCheck(i)
        \/ Cleanup(i)
        \/ CloudBuild(i)
        \/ CloudVisual(i)

SpecWeb == InitWeb /\ [][NextWeb]_vars

\* C12 as stated: generate_cfg_web validates before anything else.  Once a
\* call has left its first statement, a path that does not exist has ended
\* it with FileNotFoundError and an existing path without .py has ended it
\* with ValueError; in both cases no output directory was created and no
\* step (mkdtemp, build, render) was attempted.
C12_ValidatedFirst ==
    \A i \in Invocations :
        LET call == inv[i]
            Rejected(kind) ==
                /\ call.pc = "raised"
                /\ call.error.kind = kind
                /\ call.outDir = None
                /\ call.steps = <<>>
        IN  /\ (call.pc # "start" /\ ~call.exists) => Rejected("FileNotFoundError")
            /\ (call.pc # "start" /\ call.exists /\ call.ext # ".py")
                  => Rejected("ValueError")

\* C13 as stated: whenever a call fails after its output directory was
\* created, the directory and its content have been removed when the error
\* reaches the caller, and the error is the original failure.
C13_FailureLeavesNothing ==
    \A i \in Invocations :
        (inv[i].pc = "raised" /\ inv[i].outDir # None) =>
            /\ inv[i].removed
            /\ inv[i].error = inv[i].cause

\* The last step a call attempted.
LastStep(call) == IF call.steps = <<>> THEN "none" ELSE call.steps[Len(call.steps)]

\* C14: cfg_generator's generate_cfg_web returns only a real artifact.  After
\* the output check the call has returned exactly if the file at the output
\* path exists and is not empty, and has otherwise failed with the
\* RuntimeError of the check; and once it has returned, the path returned is
\* cfg.png inside the directory mkdtemp created for this call, the directory
\* exists and the file in it is not empty.
C14_ReturnsRealArtifact ==
    \A i \in Invocations :
        LET call == inv[i]
        IN  call.impl = "cfg_generator" =>
              /\ (LastStep(call) = "check") =>
                    /\ call.pc \in {"returned", "except"}
                    /\ call.pc = "returned"
                          <=> files[call.outPath.dir][call.outPath.name] = "full"
                    /\ call.pc = "except" =>
                          call.cause = Err("RuntimeError",
                                           <<"CFG visualization failed: Output invalid">>)
              /\ (call.pc = "returned") =>
                    /\ LastStep(call) = "check"
                    /\ call.steps[1] = "mkdtemp"
                    /\ call.result = Path(call.outDir, "cfg.png")
                    /\ call.outDir \in dirs
                    /\ files[call.result.dir][call.result.name] = "full"

\* One call has returned its image while the other failed the output check
\* on an empty file.
C14_Witness ==
    /\ inv[1].impl = "cfg_generator"
    /\ inv[1].pc = "returned"
    /\ inv[2].impl = "cfg_generator"
    /\ inv[2].pc = "except"
    /\ LastStep(inv[2]) = "check"
    /\ files[inv[2].outPath.dir]["cfg.png"] = "empty"

\* A call holds its output directory from mkdtemp until rmtree removed it.
Holds(call) == call.outDir # None /\ ~call.removed

\* C15: two concurrent calls of generate_cfg_web are isolated.  After every
\* step, two calls that hold a directory hold different ones, and every
\* file that exists lies in the directory of a call that holds it; and a
\* step of one call (its cleanup included) leaves the directory the other
\* call holds in existence and every file in it as it was.
C15_Isolated ==
    [][ /\ \A i, j \in Invocations :
              (i # j /\ Holds(inv'[i]) /\ Holds(inv'[j]))
                  => inv'[i].outDir # inv'[j].outDir
        /\ \A d \in DirNames :
              files'[d] # EmptyDir =>
                  /\ d \in dirs'
                  /\ \E i \in Invocations : Holds(inv'[i]) /\ inv'[i].outDir = d
        /\ \A i, j \in Invocations :
              (i # j /\ inv'[i] # inv[i] /\ Holds(inv[j])) =>
                  /\ inv[j].outDir \in dirs'
                  /\ files'[inv[j].outDir] = files[inv[j].outDir]
                  /\ inv'[j] = inv[j]
      ]_vars

\* Call 1 failed and removed its directory; call 2 holds another directory
\* with its sanity-check file and its image in it.
C15_Witness ==
    /\ inv[1].impl = "cfg_generator"
    /\ inv[1].pc = "raised"
    /\ inv[1].removed
    /\ inv[2].impl = "cfg_generator"
    /\ inv[2].pc = "output check"
    /\ files[inv[2].outDir]["basic_test.png"] = "full"
    /\ files[inv[2].outDir]["cfg.png"] = "full"

\* C17 as stated: a source with a syntax error makes graph generation fail
\* with the syntax-error kind, carrying the line, a kind no build or render
\* failure has.
C17_SyntaxErrorKind ==
    \A i \in Invocations :
        (/\ inv[i].source = "syntax error"
         /\ inv[i].pc = "raised"
         /\ LastStep(inv[i]) \in {"build", "cleanup"}
         /\ inv[i].cause.msg[Len(inv[i].cause.msg)] = "(line n)") =>
            inv[i].error.kind = "SyntaxError"

\* ------------------------------------------------------ generate_cfg_image
\* fmt (cfggenerator.py line 155).
Formats == {"png", "svg", "pdf"}

\* What CFGBuilder().build_from_file may return for a source it accepts
\* (line 171): a graph with an entry block, a graph whose entry is None, a
\* graph without the attribute entry, or a falsy object.
BuiltValues ==
    {Built(TRUE, 1), Built(TRUE, None), Built(TRUE, Missing), Built(FALSE, Missing)}

\* Lines 172-177 with the handlers of lines 218-227: the exception the call
\* ends with when the builder raises.
ImageBuildError(source) ==
    IF source = "syntax error"
    THEN Err("SyntaxError", <<"Syntax error in uploaded file: ", "(line n)">>)
    ELSE IF source = "unsupported"
    THEN Err("RuntimeError", <<"Failed during CFG building step: ">>)
    ELSE NoError

\* Line 180: not cfg or not hasattr(cfg, 'entry') or cfg.entry is None.
EntryAbsent(graph) == ~graph.truthy \/ ~HasEntry(graph)

\* Line 183: not f.read().strip().
IsBlankFile(source) == source \in {"empty", "whitespace"}

\* An annotation failure ending the call.
AbortOnRaise(outcome) == IF outcome = "raised" THEN "raised" ELSE "render"

\* Lines 192-198: whatever annotate_execution_order did, the call goes on to
\* the render step.
AfterAnnotation(outcome) == "render"

\* What annotate_execution_order can do with the graph (lines 17-67 and 193):
\* nothing for a graph without entry, else number it or raise on the way.
Annotations(graph) ==
    IF graph.truthy /\ HasEntry(graph) THEN {"numbered", "raised"} ELSE {"no-op"}

InitImage ==
    /\ \E source \in ImageSources, format \in Formats :
          img = ImageCall(source, format, "start")
    /\ AnnotatorIdle
    /\ ComplexityIdle
    /\ WebIdle
    /\ UploadIdle

\* Lines 164-167 and 228-230: os.makedirs(output_dir, exist_ok=True).
MakeOutputDir ==
    /\ img.pc = "start"
    /\ \/ img' = [img EXCEPT !.pc = "build", !.dirMade = TRUE,
                             !.steps = Append(@, "makedirs")]
       \/ img' = [img EXCEPT !.pc = "raised", !.steps = Append(@, "makedirs"),
                             !.error = Err("RuntimeError",
                                 <<"Unexpected error generating CFG image: ">>)]
    /\ UNCHANGED <<annVars, ccVars, webVars, upVars>>

\* Lines 169-177.
BuildImage ==
    /\ img.pc = "build"
    /\ LET e == ImageBuildError(img.source)
       IN IF e # NoError
          THEN img' = [img EXCEPT !.pc = "raised", !.error = e,
                                  !.steps = Append(@, "build")]
          ELSE \E g \in BuiltValues :
                  img' = [img EXCEPT !.pc = "entry check", !.graph = g,
                                     !.steps = Append(@, "build")]
    /\ UNCHANGED <<annVars, ccVars, webVars, upVars>>

\* Lines 180-189.
EntryCheck ==
    /\ img.pc = "entry check"
    /\ img' = IF EntryAbsent(img.graph) /\ IsBlankFile(img.source)
              THEN [img EXCEPT !.pc = "raised",
                               !.error = Err("RuntimeError", <<"Input file is empty.">>)]
              ELSE [img EXCEPT !.pc = "annotate"]
    /\ UNCHANGED <<annVars, ccVars, webVars, upVars>>

\* Lines 191-196.
AnnotateImage ==
    /\ img.pc = "annotate"
    /\ \E outcome \in Annotations(img.graph) :
          img' = [img EXCEPT !.annotation = outcome,
                             !.pc = AfterAnnotation(outcome),
                             !.steps = Append(@, "annotate")]
    /\ UNCHANGED <<annVars, ccVars, webVars, upVars>>

\* Lines 198-211: cfg.build_visual; a falsy object has no such method.
RenderImage ==
    /\ img.pc = "render"
    /\ \E o \in RenderOutcomes :
          LET call == [img EXCEPT !.rendered = img.graph, !.render = o,
                                  !.steps = Append(@, "render")]
          IN  IF ~img.graph.truthy \/ o = "raised"
              THEN img' = [call EXCEPT !.pc = "raised",
                             !.error = Err("RuntimeError", <<"Failed to visualize CFG: ">>)]
              ELSE IF o = "dot failed"
              THEN img' = [call EXCEPT !.pc = "raised",
                             !.error = Err("RuntimeError",
                                 <<"Server configuration error: Graphviz executable not found or failed.">>)]
              ELSE img' = [call EXCEPT !.pc = "returned",
                             !.result = Path(1, "cfg." \o img.format)]
    /\ UNCHANGED <<annVars, ccVars, webVars, upVars>>

NextImage ==
    \/ MakeOutputDir
    \/ BuildImage
    \/ EntryCheck
    \/ AnnotateImage
    \/ RenderImage

SpecImage == InitImage /\ [][NextImage]_vars

\* C16 as stated: for an empty, whitespace-only or comment-only source whose
\* graph has no entry, generate_cfg_image does not raise because of the
\* missing entry: annotation ran as a no-op and the render step was
\* attempted.
C16_BlankSourceRendered ==
    (/\ img.source \in {"empty", "whitespace", "comments"}
     /\ img.pc \in {"returned", "raised"}
     /\ img.graph.truthy
     /\ ~HasEntry(img.graph)) =>
        /\ img.annotation = "no-op"
        /\ img.render # "not run"

\* C18: once the annotation step of generate_cfg_image has run, whether it
\* returned or raised, the call goes on to the render step, renders the graph
\* the builder returned, and ends as the render step decides: it returns the
\* image path if the renderer returned and raises RuntimeError otherwise.
C18_AnnotationNeverAborts ==
    img.annotation # "not run" =>
        /\ img.pc \in {"render", "returned", "raised"}
        /\ img.pc \in {"returned", "raised"} =>
              /\ img.render # "not run"
              /\ img.rendered = img.graph
              /\ img.pc = "returned"
                    <=> (img.graph.truthy /\ img.render \in {"full", "empty", "nothing"})
              /\ img.pc = "raised" => img.error.kind = "RuntimeError"

\* The annotator raised and the call still returned the image path.
C18_Witness ==
    /\ img.annotation = "raised"
    /\ img.pc = "returned"
    /\ img.render = "full"

\* ---------------------------------------------------------- termination
\* One call of annotate_execution_order on the graph as built.
NextCall ==
    \/ AnnotateFirst
    \/ Iterate
    \/ Return

\* The scheduling of a running call: the interpreter executes the next loop
\* iteration, and the return, whenever there is one to execute.
SpecCall == Init /\ [][NextCall]_vars /\ WF_vars(Iterate) /\ WF_vars(Return)

\* The number of entries in the successors collections of the blocks of s.
EdgeCount(g, s) ==
    SumOf([i \in 1..Len(s) |->
             IF s[i] \in Nodes /\ IsCollection(SuccessorsOf(g, s[i]))
             THEN Len(SuccessorsOf(g, s[i]).items)
             ELSE 0])

\* C19: annotate_execution_order terminates on every finite graph, with back
\* edges, self-loops and blocks reachable along many paths.  No block is
\* processed twice, the number of loop iterations so far plus the blocks
\* waiting in the queue never exceeds the entry plus the successor entries of
\* the blocks processed, and a call that entered the loop returns.
C19_Terminates ==
    /\ [](pc \in {"loop", "returned"} =>
             /\ NoDup(processed)
             /\ Len(dequeued) + Len(queue) <= 1 + EdgeCount(cfg, processed))
    /\ (pc = "loop") ~> (pc = "returned" /\ queue = <<>>)

\* A call returned on a graph in which a back edge leads from a processed
\* block to the entry and a block, reached along two paths, was dequeued
\* twice.
C19_Witness ==
    /\ pc = "returned"
    /\ run = "first"
    /\ \E n \in Nodes \ {cfg.entry} :
          /\ n \in Range(processed)
          /\ cfg.entry \in Range(SuccessorsOf(cfg, n).items)
    /\ Len(dequeued) > Len(processed)

\* Lines 112-118: the lookup of a complexity ends without a match.
NoMatch(complexity, sd) ==
    ~IsTable(sd) \/ \A k \in 1..Len(sd.entries) : ~Matches(complexity, sd.entries[k])

\* C20 as stated: whenever the rank lookup of a block produces no match (the
\* rank table is no list or tuple, or no well-formed entry has a limit at or
\* above the score), the finding of that block is still emitted, with rank
\* 'A', and its score is still part of the total.
C20_FallbackEmitsA ==
    (ccPc = "returned" /\ ccInput.source = "parsed") =>
        \A i \in 1..Len(ccInput.blocks) :
            NoMatch(ccInput.blocks[i].complexity, ccInput.score) =>
                /\ Len(ccResults) = Len(ccInput.blocks)
                /\ ccResults[i] = Finding(i, ccInput.blocks[i], "A")
                /\ ccTotal = SumOf([k \in 1..Len(ccInput.blocks) |->
                                      ccInput.blocks[k].complexity])

\* ------------------------------------------------------------- upload_file
\* upload_file without its last handler, 'except Exception'.
ResponseNoCatchAll(e) ==
    IF e = NoError THEN Response(302, "show_result")
    ELSE IF e.kind \in {"FileNotFoundError", "ValueError"} THEN Response(302, "upload")
    ELSE IF e.kind = "RuntimeError" THEN Response(500, "error.html")
    ELSE NoResponse

\* app.py lines 103-122: the response for the way the try block ended: the
\* redirect to the result, the redirect back to the form for
\* FileNotFoundError and ValueError, the error page for RuntimeError and for
\* every other Exception.
ResponseTo(e) ==
    IF e = NoError THEN Response(302, "show_result")
    ELSE IF e.kind \in {"FileNotFoundError", "ValueError"} THEN Response(302, "upload")
    ELSE Response(500, "error.html")

\* The request is served by call 1 of generate_cfg_web (app.py line 8: the
\* one of cfg_generator.py).
InitUpload ==
    /\ \E source \in SourceTexts : up = Upload(source, "try")
    /\ WebIdle
    /\ AnnotatorIdle
    /\ ComplexityIdle
    /\ ImageIdle

\* app.py line 81: input_temp_dir = tempfile.mkdtemp(), or the OSError it
\* raises.
UploadMkdtemp ==
    /\ up.pc = "try"
    /\ \/ \E d \in FreshNames(dirs) :
             /\ dirs' = dirs \cup {d}
             /\ files' = [files EXCEPT ![d] = EmptyDir]
             /\ up' = [up EXCEPT !.inputDir = d, !.pc = "save",
                                 !.steps = Append(@, "mkdtemp")]
       \/ /\ up' = [up EXCEPT !.raised = Err("OSError", <<"mkdtemp">>),
                              !.pc = "handle", !.steps = Append(@, "mkdtemp")]
          /\ UNCHANGED <<dirs, files>>
    /\ UNCHANGED inv
    /\ UNCHANGED <<annVars, ccVars, imgVars>>

\* app.py lines 82-89: the upload is saved and generate_cfg_web is called on
\* it; the file name ends in .py (line 73).
UploadSave ==
    /\ up.pc = "save"
    /\ \E o \in SaveOutcomes :
          IF o = "saved"
          THEN /\ up' = [up EXCEPT !.pc = "calling", !.steps = Append(@, "save")]
               /\ inv' = [inv EXCEPT ![1] =
                            Invocation("cfg_generator", TRUE, ".py", up.source, "start")]
          ELSE /\ up' = [up EXCEPT !.raised = Err(o, <<"save">>), !.pc = "handle",
                                   !.steps = Append(@, "save")]
               /\ inv' = inv
    /\ UNCHANGED <<dirs, files>>
    /\ UNCHANGED <<annVars, ccVars, imgVars>>

\* app.py lines 89-90 and 105-118: generate_cfg_web returned its path or
\* raised.
UploadCallEnds ==
    /\ up.pc = "calling"
    /\ inv[1].pc \in {"returned", "raised"}
    /\ up' = [up EXCEPT !.raised = inv[1].error, !.pc = "handle"]
    /\ UNCHANGED webVars
    /\ UNCHANGED <<annVars, ccVars, imgVars>>

\* app.py lines 98-122: the return statement of the try block or of the
\* handler that matches; an exception no handler matches propagates.
UploadHandle ==
    /\ up.pc = "handle"
    /\ up' = [up EXCEPT !.response = ResponseTo(up.raised),
                        !.propagated = IF ResponseTo(up.raised) = NoResponse
                                       THEN up.raised ELSE NoError,
                        !.pc = "finally",
                        !.steps = Append(@, "handle")]
    /\ UNCHANGED webVars
    /\ UNCHANGED <<annVars, ccVars, imgVars>>

\* app.py lines 123-130: shutil.rmtree removes the input directory, or fails
\* and is logged; then the handler returns.
UploadFinally ==
    /\ up.pc = "finally"
    /\ LET d == up.inputDir
           done == [up EXCEPT !.pc = "done", !.steps = Append(@, "finally")]
       IN IF d # None /\ d \in dirs
          THEN \/ /\ dirs' = dirs \ {d}
                  /\ files' = [files EXCEPT ![d] = EmptyDir]
                  /\ up' = [done EXCEPT !.inputRemoved = TRUE]
               \/ /\ up' = done
                  /\ UNCHANGED <<dirs, files>>
          ELSE /\ up' = done
               /\ UNCHANGED <<dirs, files>>
    /\ UNCHANGED inv
    /\ UNCHANGED <<annVars, ccVars, imgVars>>

NextUpload ==
    \/ UploadMkdtemp
    \/ UploadSave
    \/ Validate(1)
    \/ Mkdtemp(1)
    \/ SanityRender(1)
    \/ SanityCheck(1)
    \/ Build(1)
    \/ Render(1)
    \/ OutputCheck(1)
    \/ Cleanup(1)
    \/ UploadCallEnds
    \/ UploadHandle
    \/ UploadFinally

SpecUpload == InitUpload /\ [][NextUpload]_vars

StepOrder == <<"mkdtemp", "sanity", "build", "render", "check">>

\* The steps a call attempted, its cleanup left out.
Attempted(call) == SelectSeq(call.steps, LAMBDA s : s # "cleanup")

\* The exceptions of a failed renderer sanity check (lines 58-70).
IsSanityFailure(e) ==
    /\ e.kind = "RuntimeError"
    /\ e.msg # <<>>
    /\ e.msg[1] \in {"Basic graphviz test failed ('dot' command error).",
                    "Basic graphviz test failed: "}

\* C22: in cfg_generator's _generate_and_visualize_cfg the steps run in the
\* order sanity check, build, render, output check, and a step runs only if
\* every earlier one succeeded: the steps attempted are a beginning of that
\* order, the build is attempted only after the sanity check passed, and a
\* call that failed attempted nothing after the failed step.  So when the
\* sanity check fails the source is never parsed, and a source with a syntax
\* error is reported with the renderer's RuntimeError, not with the message of
\* a syntax error.
C22_FixedStepOrder ==
    \A i \in Invocations :
        LET call == inv[i]
            done == Attempted(call)
        IN  call.impl = "cfg_generator" =>
              /\ Len(done) <= Len(StepOrder)
              /\ done = SubSeq(StepOrder, 1, Len(done))
              /\ ("build" \in Range(done)) => call.passed
              /\ IsSanityFailure(call.cause) =>
                    /\ LastStep([steps |-> done]) = "sanity"
                    /\ call.error = call.cause
                    /\ call.error # BuildError(call.source)
              /\ (call.cause # NoError /\ call.cause = BuildError(call.source))
                    => LastStep([steps |-> done]) = "build"
              /\ (call.cause # NoError /\ call.pc \in {"except", "raised"}
                  /\ Len(done) >= 1)
                    => \/ IsSanityFailure(call.cause) /\ LastStep([steps |-> done]) = "sanity"
                       \/ call.cause = BuildError(call.source)
                            /\ LastStep([steps |-> done]) = "build"
                       \/ LastStep([steps |-> done]) \in {"render", "check"}

\* A call on a source with a syntax error ended with the failure of the
\* renderer sanity check; the build was not attempted.
C22_Witness ==
    /\ inv[1].impl = "cfg_generator"
    /\ inv[1].source = "syntax error"
    /\ inv[1].pc = "raised"
    /\ IsSanityFailure(inv[1].error)
    /\ inv[1].steps = <<"mkdtemp", "sanity", "cleanup">>

====
